---- MODULE Spec2Model ----
(***************************************************************************)
(* Model of src/src/sqs_completion_handler.rs: the batching completion     *)
(* handler (SqsCompletionHandler), its policy (CompletionPolicy), the      *)
(* facade handle (SqsCompletionHandlerActor) and the worker task           *)
(* (route_wrapper) that owns the handler behind a bounded tokio mailbox.   *)
(*                                                                         *)
(* The worker is a process with a program counter `wpc`; it is cut at the  *)
(* await points of ack_all (emit, cache.store, delete_message_batch) and   *)
(* at the calls of the on_ack callback.  Producers are tasks holding a     *)
(* clone of the facade handle.  `calls` is a history variable: the calls   *)
(* made to the collaborators since the worker took its last command.       *)
(***************************************************************************)
EXTENDS Integers, Sequences, FiniteSets, TLC

\* ---------------------------------------------------------------- bounds
MaxCmds == 3           \* commands accepted by the mailbox in one run
MaxIdentities == 1     \* identities carried by one outcome
NumMsgIds == 2         \* distinct SQS message ids in a run
MaxNow == 1            \* ticks of the monotonic clock in a run
MaxPolicyMessages == 3 \* largest max_messages given to CompletionPolicy::new
MaxBuffered == 21      \* largest number of buffered messages in InitBuffered
FullSplit == 3         \* chunks up to this size get every success/failure split
Hour == 3600           \* a max_time_between_flushes no run reaches

\* ------------------------------------------------------ program constants
ChunkSize == 10        \* completed_messages.chunks(10)
U16 == 65536           \* len() as u16

Producers == {"p1", "p2"}
MsgIds == 1 .. NumMsgIds
Kinds == {"Total", "Partial", "Error"}

VARIABLES
    completed_events,    \* Vec<CE>: results, each named by its command number
    identities,          \* Vec<Vec<u8>>
    completed_messages,  \* Vec<SqsMessage>: [message_id, receipt_handle]
    completion_policy,   \* [max_messages, max_time_between_flushes, last_flush]
    now,                 \* the latest value Instant::now() returned
    mailbox,             \* the channel's buffer
    wpc,                 \* where the worker task is
    cur,                 \* the command route_message is applying
    drain_it,            \* what self.identities.drain(..) still holds
    acks,                \* the local `acks` of ack_all
    ppc,                 \* where each producer is
    signalled,           \* oneshot tokens that were sent to
    nsub,                \* commands accepted so far
    calls,               \* history: collaborator calls made for the command taken last
    flush0,              \* history: the buffers when that command's flush started
    started, finished,   \* history: commands dequeued / applied to the end
    flushes,             \* history: flushes started
    resets,              \* history: calls of set_last_flush
    onlyTotals,          \* history: every command dequeued so far was a Total
    totalIds,            \* history: message ids accepted with a Total outcome
    nonTotal             \* history: messages accepted with a Partial or an Error

vars == <<completed_events, identities, completed_messages, completion_policy,
          now, mailbox, wpc, cur, drain_it, acks, ppc, signalled, nsub, calls,
          flush0, started, finished, flushes, resets, onlyTotals, totalIds,
          nonTotal>>

NoCmd == [type |-> "none", n |-> 0, msg |-> [message_id |-> 0, receipt_handle |-> 0],
          kind |-> "none", identities |-> <<>>, notify |-> FALSE]

NoFlush == [events |-> <<>>, identities |-> <<>>, messages |-> <<>>, by |-> 0,
            token |-> FALSE]

\* ---------------------------------------------------------------- helpers
Min(a, b) == IF a < b THEN a ELSE b

\* The sub-sequence of s at the positions in P, in order.
RECURSIVE Pick(_, _, _)
Pick(s, P, i) ==
    IF i > Len(s) THEN <<>>
    ELSE (IF i \in P THEN <<s[i]>> ELSE <<>>) \o Pick(s, P, i + 1)

\* The identities an outcome of command n may carry.
IdentitiesOf(n) ==
    { [i \in 1 .. k |-> 10 * n + i] : k \in 0 .. MaxIdentities }

\* -------------------------------------------------------- CompletionPolicy
\* CompletionPolicy::new
PolicyNew(max_messages, max_time_between_flushes, t) ==
    [max_messages |-> max_messages,
     max_time_between_flushes |-> max_time_between_flushes,
     last_flush |-> t]

\* A policy that wants both thresholds reached.
ShouldFlushBoth(p, cur_messages, t) ==
    cur_messages >= p.max_messages /\
        t - p.last_flush >= p.max_time_between_flushes

\* A policy that waits for one message more than max_messages.
ShouldFlushStrict(p, cur_messages, t) ==
    cur_messages > p.max_messages \/
        t - p.last_flush >= p.max_time_between_flushes

\* CompletionPolicy::should_flush
should_flush(p, cur_messages, t) ==
    cur_messages >= p.max_messages \/
        t - p.last_flush >= p.max_time_between_flushes

\* CompletionPolicy::set_last_flush
set_last_flush(p, t) == [p EXCEPT !.last_flush = t]

\* ------------------------------------------------- SqsCompletionHandler
\* A handler that buffers the result of an Error outcome too.
PushEventAlways(evs, cmd) == Append(evs, cmd.n)

\* A handler whose Partial arm forgets the result.
PushEventTotalOnly(evs, cmd) ==
    IF cmd.kind = "Total" THEN Append(evs, cmd.n) ELSE evs

\* A handler whose Total arm forgets the result.
PushEventPartialOnly(evs, cmd) ==
    IF cmd.kind = "Partial" THEN Append(evs, cmd.n) ELSE evs

\* mark_complete, completed_events: Total and Partial push their result.
PushEvent(evs, cmd) ==
    IF cmd.kind \in {"Total", "Partial"} THEN Append(evs, cmd.n) ELSE evs

\* A handler whose Partial arm pushes the SQS message as well.
PushMessagePartialToo(msgs, cmd) ==
    IF cmd.kind \in {"Total", "Partial"} THEN Append(msgs, cmd.msg) ELSE msgs

\* mark_complete, completed_messages: only Total pushes the SQS message.
PushMessage(msgs, cmd) ==
    IF cmd.kind = "Total" THEN Append(msgs, cmd.msg) ELSE msgs

\* mark_complete, identities: Total and Partial extend by the carried ones.
ExtendIdentities(ids, cmd) ==
    IF cmd.kind \in {"Total", "Partial"} THEN ids \o cmd.identities ELSE ids

NumChunksOf(n, size) == (n + size - 1) \div size

\* chunks_exact(10): the shorter last chunk is left out.
ChunksExact(msgs) ==
    [j \in 1 .. (Len(msgs) \div ChunkSize) |->
        SubSeq(msgs, (j - 1) * ChunkSize + 1, j * ChunkSize)]

\* self.completed_messages.chunks(10)
Chunks(msgs) ==
    [j \in 1 .. NumChunksOf(Len(msgs), ChunkSize) |->
        SubSeq(msgs, (j - 1) * ChunkSize + 1, Min(j * ChunkSize, Len(msgs)))]

\* DeleteMessageBatchRequestEntry {id, receipt_handle} of every message of a chunk
Entries(chunk) ==
    [i \in 1 .. Len(chunk) |->
        [id |-> chunk[i].message_id, receipt_handle |-> chunk[i].receipt_handle]]

\* msg_ids of a chunk
MsgIdsOf(chunk) == [i \in 1 .. Len(chunk) |-> chunk[i].message_id]

\* The ways the backend may split the entries of a request into failed and
\* successful ones: every split of a small request, two of a large one.
FailSets(n) ==
    IF n <= FullSplit THEN SUBSET (1 .. n)
    ELSE { {}, {i \in 1 .. n : i % 2 = 1} }

\* What delete_message_batch(..).with_timeout(2s) may resolve to: Err (timeout
\* or transport error), or Ok with every entry reported once, successful or
\* failed, each list in request order.
DeleteResponses(chunk) ==
    { [ok |-> FALSE, successful |-> <<>>, failed |-> <<>>] } \cup
    { [ok |-> TRUE,
       successful |-> Pick(MsgIdsOf(chunk), (1 .. Len(chunk)) \ F, 1),
       failed |-> Pick(MsgIdsOf(chunk), F, 1)] : F \in FailSets(Len(chunk)) }

Event(op, arg, res, chunk) == [op |-> op, arg |-> arg, res |-> res, chunk |-> chunk]

OnAckEvents(ids, res, j) == [i \in 1 .. Len(ids) |-> Event("on_ack", ids[i], res, j)]

\* A handler that walks batch_result.failed before batch_result.successful.
AckCallsFailedFirst(ack, j) ==
    IF ack.result.ok
    THEN OnAckEvents(ack.result.failed, "Err", j) \o
         OnAckEvents(ack.result.successful, "Ok", j)
    ELSE OnAckEvents(ack.msg_ids, "Err", j)

\* A handler that only logs a failed request.
AckCallsDropRequestError(ack, j) ==
    IF ack.result.ok
    THEN OnAckEvents(ack.result.successful, "Ok", j) \o
         OnAckEvents(ack.result.failed, "Err", j)
    ELSE <<>>

\* A handler that reports the successful entries only.
AckCallsSkipFailed(ack, j) ==
    IF ack.result.ok
    THEN OnAckEvents(ack.result.successful, "Ok", j)
    ELSE OnAckEvents(ack.msg_ids, "Err", j)

\* The on_ack calls of one (result, msg_ids) pair of `acks`, in call order.
AckCalls(ack, j) ==
    IF ack.result.ok
    THEN OnAckEvents(ack.result.successful, "Ok", j) \o
         OnAckEvents(ack.result.failed, "Err", j)
    ELSE OnAckEvents(ack.msg_ids, "Err", j)

\* A handler that only logs a failed emit.
ExpectIgnored(res) == TRUE

\* Result::expect("Failed to emit event"): Ok goes on, Err panics the task.
Expect(res) == res = "Ok"

\* A handler that expects every store to succeed.
StoreGoesOnIfOk(res) == res = "Ok"

\* `if let Err(e) = self.cache.store(identity).await { warn!(..) }`: the loop
\* goes on whatever the store returned.
StoreGoesOn(res) == res \in {"Ok", "Err"}

\* A handler that uses the token right after the loop over `acks`.
AfterLastAckSkipClear == "notify"

\* After the loop over `acks`: the buffers are cleared before the token is used.
AfterLastAck == "clear"

\* Where ack_all goes once the identities are stored.
AfterStore(msgs) == IF Chunks(msgs) = <<>> THEN AfterLastAck ELSE "delete"

\* A handler that ends the flush early when no message is to be deleted.
AfterEmitNothingToDelete(ids, msgs) ==
    IF msgs = <<>> THEN AfterLastAck
    ELSE IF ids = <<>> THEN AfterStore(msgs) ELSE "store"

\* Where ack_all goes once emit_event returned Ok.
AfterEmit(ids, msgs) == IF ids = <<>> THEN AfterStore(msgs) ELSE "store"

\* ------------------------------------------------------------ the worker
\* A mailbox of two slots.
ChannelCapacityTwo == 1 + 1

\* SqsCompletionHandlerActor::new: `channel(1)`, the slots of the mailbox. A
\* slot is free again as soon as recv() has taken the command out of it.
ChannelCapacity == 1

\* A worker that spawns route_message instead of awaiting it.
WorkerCanRecvAnytime == wpc \notin {"aborted"}

\* route_wrapper: recv() is polled only once route_message(msg).await returned.
WorkerCanRecv == wpc = "recv"

\* A handler that drops the token unused.
HasTokenNever(notify) == FALSE

\* ack_all: `if let Some(notify) = notify`
HasToken(notify) == notify

\* An actor built without a sender of its own.
NoSelfActor == 1 - 1

\* SqsCompletionHandlerActor::new: `actor_impl.self_actor = Some(self_actor.clone())`,
\* the sender the handler inside the worker holds for as long as it lives.
SelfActor == 1

\* The senders of the channel that are alive: the facade handles not yet
\* dropped, and the handler's own.
Senders ==
    Cardinality({ p \in Producers : ppc[p] \in {"idle", "sending"} }) + SelfActor

\* The worker task is over and the receiver is dropped: it panicked, or left
\* its loop.
WorkerGone == wpc \in {"aborted", "stopped"}

\* The history variables at the first statement of ack_all.
BeginFlush(evs, ids, msgs) ==
    /\ calls' = <<>>
    /\ flush0' = [events |-> evs, identities |-> ids, messages |-> msgs,
                  by |-> cur.n, token |-> cur.notify]
    /\ flushes' = flushes + 1

\* route_wrapper: `while let Some(msg) = router.receiver.recv().await`
\* recv() returns Some(msg) when the channel holds a command, None when it is
\* empty and no sender is left, and is pending otherwise.
Recv ==
    /\ WorkerCanRecv
    /\ IF mailbox # <<>>
       THEN /\ cur' = Head(mailbox)
            /\ mailbox' = Tail(mailbox)
            /\ wpc' = "route"
            /\ started' = started + 1
            /\ onlyTotals' = (onlyTotals /\ Head(mailbox).kind = "Total")
            /\ calls' = <<>>
            /\ flush0' = NoFlush
       ELSE /\ Senders = 0
            /\ wpc' = "stopped"
            /\ UNCHANGED <<cur, mailbox, started, onlyTotals, calls, flush0>>
    /\ UNCHANGED <<completed_events, identities, completed_messages,
                   completion_policy, now, drain_it, acks, ppc, signalled, nsub,
                   finished, flushes, resets, totalIds,
                   nonTotal>>

\* What Instant::now() may return: the monotonic clock does not go back.
Instants == now .. MaxNow

\* route_message -> mark_complete, up to the call of ack_all(None)
MarkComplete ==
    /\ wpc = "route"
    /\ cur.type = "mark_complete"
    /\ completed_events' = PushEvent(completed_events, cur)
    /\ completed_messages' = PushMessage(completed_messages, cur)
    /\ identities' = ExtendIdentities(identities, cur)
    /\ \E t \in Instants :
         /\ now' = t
         /\ IF should_flush(completion_policy, Len(completed_events') % U16, t)
            THEN /\ wpc' = "serialize"
                 /\ BeginFlush(completed_events', identities', completed_messages')
                 /\ UNCHANGED <<cur, finished>>
            ELSE /\ wpc' = "recv"
                 /\ cur' = NoCmd
                 /\ finished' = finished + 1
                 /\ UNCHANGED <<calls, flush0, flushes>>
    /\ UNCHANGED <<completion_policy, mailbox, drain_it, acks, ppc,
                   signalled, nsub, started, resets, onlyTotals, totalIds,
                   nonTotal>>

\* route_message -> ack_all(notify)
AckAllCommand ==
    /\ wpc = "route"
    /\ cur.type = "ack_all"
    /\ wpc' = "serialize"
    /\ BeginFlush(completed_events, identities, completed_messages)
    /\ UNCHANGED <<completed_events, identities, completed_messages,
                   completion_policy, now, mailbox, cur, drain_it, acks, ppc,
                   signalled, nsub, started, finished, resets, onlyTotals, totalIds,
                   nonTotal>>

\* A panic of the worker task: the router is dropped, and with it the receiver
\* and whatever the mailbox holds.
Panicked ==
    /\ wpc' = "aborted"
    /\ mailbox' = <<>>
    /\ acks' = <<>>
    /\ drain_it' = <<>>

\* ack_all: serialize_completed_events(&self.completed_events[..]) returns Ok
SerializeOk ==
    /\ wpc = "serialize"
    /\ calls' = Append(calls, Event("serialize", completed_events, "Ok", 0))
    /\ wpc' = "emit"
    /\ UNCHANGED <<completed_events, identities, completed_messages,
                   completion_policy, now, mailbox, cur, drain_it, acks, ppc,
                   signalled, nsub, flush0, started, finished, flushes, resets,
                   onlyTotals, totalIds,
                   nonTotal>>

\* ack_all: serialize_completed_events returns Err: clear two buffers, panic
SerializeErr ==
    /\ wpc = "serialize"
    /\ calls' = Append(calls, Event("serialize", completed_events, "Err", 0))
    /\ completed_events' = <<>>
    /\ completed_messages' = <<>>
    /\ Panicked
    /\ UNCHANGED <<identities, completion_policy, now, cur, ppc, signalled, nsub,
                   flush0, started, finished, flushes, resets, onlyTotals, totalIds,
                   nonTotal>>

\* ack_all: emit_event(serialized_event).await.expect(..); on Ok the drain of
\* the identities begins
Emit ==
    /\ wpc = "emit"
    /\ \E res \in {"Ok", "Err"} :
         /\ calls' = Append(calls, Event("emit", 0, res, 0))
         /\ IF Expect(res)
            THEN /\ drain_it' = identities
                 /\ identities' = <<>>
                 /\ wpc' = AfterEmit(identities, completed_messages)
                 /\ UNCHANGED <<mailbox, acks>>
            ELSE /\ Panicked
                 /\ UNCHANGED identities
    /\ UNCHANGED <<completed_events, completed_messages, completion_policy, now,
                   cur, ppc, signalled, nsub, flush0, started, finished, flushes,
                   resets, onlyTotals, totalIds,
                   nonTotal>>

\* ack_all: one turn of `for identity in self.identities.drain(..)`
CacheStore ==
    /\ wpc = "store"
    /\ \E res \in {"Ok", "Err"} :
         /\ calls' = Append(calls, Event("store", Head(drain_it), res, 0))
         /\ IF StoreGoesOn(res)
            THEN /\ drain_it' = Tail(drain_it)
                 /\ wpc' = IF Tail(drain_it) = <<>>
                           THEN AfterStore(completed_messages) ELSE "store"
                 /\ UNCHANGED <<mailbox, acks>>
            ELSE Panicked
    /\ UNCHANGED <<completed_events, identities, completed_messages,
                   completion_policy, now, cur, ppc, signalled,
                   nsub, flush0, started, finished, flushes, resets, onlyTotals, totalIds,
                   nonTotal>>

\* ack_all: one turn of `for chunk in self.completed_messages.chunks(10)`
DeleteBatch ==
    /\ wpc = "delete"
    /\ LET chunks == Chunks(completed_messages)
           j == Len(acks) + 1
           chunk == chunks[j]
       IN  /\ \E result \in DeleteResponses(chunk) :
                /\ calls' = Append(calls,
                                Event("delete", Entries(chunk), result, j))
                /\ acks' = Append(acks, [result |-> result,
                                         msg_ids |-> MsgIdsOf(chunk), chunk |-> j])
           /\ wpc' = IF j >= Len(chunks) THEN "ack" ELSE "delete"
    /\ UNCHANGED <<completed_events, identities, completed_messages,
                   completion_policy, now, mailbox, cur, drain_it, ppc, signalled,
                   nsub, flush0, started, finished, flushes, resets, onlyTotals, totalIds,
                   nonTotal>>

\* ack_all: one turn of `for (result, msg_ids) in acks`
OnAck ==
    /\ wpc = "ack"
    /\ calls' = calls \o AckCalls(Head(acks), Head(acks).chunk)
    /\ acks' = Tail(acks)
    /\ wpc' = IF Tail(acks) = <<>> THEN AfterLastAck ELSE "ack"
    /\ UNCHANGED <<completed_events, identities, completed_messages,
                   completion_policy, now, mailbox, cur, drain_it, ppc, signalled,
                   nsub, flush0, started, finished, flushes, resets, onlyTotals, totalIds,
                   nonTotal>>

\* ack_all: completed_events.clear(); completed_messages.clear()
ClearBuffers ==
    /\ wpc = "clear"
    /\ completed_events' = <<>>
    /\ completed_messages' = <<>>
    /\ calls' = Append(calls, Event("clear", 0, "Ok", 0))
    /\ wpc' = "notify"
    /\ UNCHANGED <<identities, completion_policy, now, mailbox, cur, drain_it,
                   acks, ppc, signalled, nsub, flush0, started, finished, flushes,
                   resets, onlyTotals, totalIds,
                   nonTotal>>

\* ack_all: `if let Some(notify) = notify { notify.send(()) }`, the return to
\* the caller, and after ack_all(None) in mark_complete, set_last_flush()
FlushReturn ==
    /\ wpc = "notify"
    /\ IF HasToken(cur.notify)
       THEN /\ signalled' = signalled \cup {cur.n}
            /\ calls' = Append(calls, Event("notify", cur.n, "Ok", 0))
       ELSE UNCHANGED <<signalled, calls>>
    /\ IF cur.type = "mark_complete"
       THEN \E t \in Instants :
              /\ now' = t
              /\ completion_policy' = set_last_flush(completion_policy, t)
              /\ resets' = resets + 1
       ELSE UNCHANGED <<completion_policy, resets, now>>
    /\ wpc' = "recv"
    /\ cur' = NoCmd
    /\ finished' = finished + 1
    /\ UNCHANGED <<completed_events, identities, completed_messages,
                   mailbox, drain_it, acks, ppc, nsub, flush0, started, flushes,
                   onlyTotals, totalIds, nonTotal>>

\* ---------------------------------------------------------- the producers
\* `self.sender.clone().send(msg).await` finds no free slot in the channel: the
\* caller of mark_complete / ack_all is suspended.
SendWait(p) ==
    /\ ppc[p] = "idle"
    /\ ~WorkerGone
    /\ Len(mailbox) >= ChannelCapacity
    /\ ppc' = [ppc EXCEPT ![p] = "sending"]
    /\ UNCHANGED <<completed_events, identities, completed_messages,
                   completion_policy, now, mailbox, wpc, cur, drain_it, acks,
                   signalled, nsub, calls, flush0, started, finished, flushes,
                   resets, onlyTotals, totalIds,
                   nonTotal>>

\* send(msg).await returns Ok: the channel has a free slot and takes the command,
\* at once or after a wait.
Accept(p, cmd) ==
    /\ ppc[p] \in {"idle", "sending"}
    /\ ~WorkerGone
    /\ nsub < MaxCmds
    /\ Len(mailbox) < ChannelCapacity
    /\ mailbox' = Append(mailbox, cmd)
    /\ nsub' = nsub + 1
    /\ ppc' = [ppc EXCEPT ![p] = "idle"]
    /\ totalIds' = IF cmd.kind = "Total" THEN totalIds \cup {cmd.msg.message_id}
                   ELSE totalIds
    /\ nonTotal' = IF cmd.kind \in {"Partial", "Error"} THEN nonTotal \cup {cmd.msg}
                   ELSE nonTotal
    /\ UNCHANGED <<completed_events, identities, completed_messages,
                   completion_policy, now, wpc, cur, drain_it, acks, signalled,
                   calls, flush0, started, finished, flushes, resets, onlyTotals>>

\* Message ids are opaque: the k-th message of a run has one of the first k.
NextMsgIds == 1 .. Min(nsub + 1, NumMsgIds)

\* SqsCompletionHandlerActor::mark_complete(msg, completed) returns
MarkCompleteSend(p) ==
    \E id \in NextMsgIds, kind \in Kinds, ids \in IdentitiesOf(nsub + 1) :
        Accept(p, [type |-> "mark_complete", n |-> nsub + 1,
                   msg |-> [message_id |-> id, receipt_handle |-> nsub + 1],
                   kind |-> kind, identities |-> ids, notify |-> FALSE])

\* SqsCompletionHandlerActor::ack_all(notify) returns
AckAllSend(p) ==
    \E notify \in BOOLEAN :
        Accept(p, [type |-> "ack_all", n |-> nsub + 1,
                   msg |-> NoCmd.msg, kind |-> "none", identities |-> <<>>,
                   notify |-> notify])

\* send(msg).await returns Err: the receiver is gone; the caller panics.
SendErr(p) ==
    /\ ppc[p] \in {"idle", "sending"}
    /\ WorkerGone
    /\ ppc' = [ppc EXCEPT ![p] = "panicked"]
    /\ UNCHANGED <<completed_events, identities, completed_messages,
                   completion_policy, now, mailbox, wpc, cur, drain_it, acks,
                   signalled, nsub, calls, flush0, started, finished, flushes,
                   resets, onlyTotals, totalIds,
                   nonTotal>>

\* The caller drops its SqsCompletionHandlerActor: one sender less.
DropHandle(p) ==
    /\ ppc[p] = "idle"
    /\ ppc' = [ppc EXCEPT ![p] = "dropped"]
    /\ UNCHANGED <<completed_events, identities, completed_messages,
                   completion_policy, now, mailbox, wpc, cur, drain_it, acks,
                   signalled, nsub, calls, flush0, started, finished, flushes,
                   resets, onlyTotals, totalIds, nonTotal>>

\* ------------------------------------------------------- specifications
\* The <<max_messages, max_time_between_flushes>> a handler is built with:
\* every count threshold with a time threshold that never fires, and every
\* time threshold with the largest count threshold.
Policies ==
    { <<mm, Hour>> : mm \in 0 .. MaxPolicyMessages } \cup
    { <<MaxPolicyMessages, mt>> : mt \in 0 .. MaxNow }

\* SqsCompletionHandler::new, then SqsCompletionHandlerActor::new
Init ==
    /\ completed_events = <<>>
    /\ identities = <<>>
    /\ completed_messages = <<>>
    /\ \E pol \in Policies : completion_policy = PolicyNew(pol[1], pol[2], 0)
    /\ now = 0
    /\ mailbox = <<>>
    /\ wpc = "recv"
    /\ cur = NoCmd
    /\ drain_it = <<>>
    /\ acks = <<>>
    /\ ppc = [p \in Producers |-> "idle"]
    /\ signalled = {}
    /\ nsub = 0
    /\ calls = <<>>
    /\ flush0 = NoFlush
    /\ started = 0
    /\ finished = 0
    /\ flushes = 0
    /\ resets = 0
    /\ onlyTotals = TRUE
    /\ totalIds = {}
    /\ nonTotal = {}

\* A handler in the middle of a run: n Total outcomes are buffered (results and
\* receipt handles 101, 102, .., message ids in rotation, the first outcome
\* carried one identity), the policy was built with the largest count threshold
\* and a time threshold that never fires, and the run has one more command to
\* accept.
BufferedMessage(i) ==
    [message_id |-> ((i - 1) % NumMsgIds) + 1, receipt_handle |-> 100 + i]

InitBuffered ==
    /\ \E n \in 0 .. MaxBuffered :
         /\ completed_events = [i \in 1 .. n |-> 100 + i]
         /\ completed_messages = [i \in 1 .. n |-> BufferedMessage(i)]
         /\ identities = [i \in 1 .. Min(n, 1) |-> 1000 + i]
         /\ completion_policy = PolicyNew(U16 - 1, Hour, 0)
    /\ now = 0
    /\ mailbox = <<>>
    /\ wpc = "recv"
    /\ cur = NoCmd
    /\ drain_it = <<>>
    /\ acks = <<>>
    /\ ppc = [p \in Producers |-> "idle"]
    /\ signalled = {}
    /\ nsub = MaxCmds - 1
    /\ calls = <<>>
    /\ flush0 = NoFlush
    /\ started = MaxCmds - 1
    /\ finished = MaxCmds - 1
    /\ flushes = 0
    /\ resets = 0
    /\ onlyTotals = TRUE
    /\ totalIds = { completed_messages[i].message_id : i \in DOMAIN completed_messages }
    /\ nonTotal = {}

Next ==
    \/ Recv
    \/ MarkComplete
    \/ AckAllCommand
    \/ SerializeOk
    \/ SerializeErr
    \/ Emit
    \/ CacheStore
    \/ DeleteBatch
    \/ OnAck
    \/ ClearBuffers
    \/ FlushReturn
    \/ \E p \in Producers : SendWait(p)
    \/ \E p \in Producers : MarkCompleteSend(p)
    \/ \E p \in Producers : AckAllSend(p)
    \/ \E p \in Producers : SendErr(p)

Spec == Init /\ [][Next]_vars

\* The steps of the worker task.
Worker ==
    \/ Recv
    \/ MarkComplete
    \/ AckAllCommand
    \/ SerializeOk
    \/ SerializeErr
    \/ Emit
    \/ CacheStore
    \/ DeleteBatch
    \/ OnAck
    \/ ClearBuffers
    \/ FlushReturn

\* The runs in which the callers may drop their handles.
NextHandles ==
    \/ Next
    \/ \E p \in Producers : DropHandle(p)

SpecBuffered == InitBuffered /\ [][Next]_vars

\* A handler built with a count threshold below the largest and a time
\* threshold that never fires, after the first commands of the run, each an
\* outcome of kind Error for message 1, have been applied: the run has two
\* more commands to accept.
InitApplied ==
    /\ completed_events = <<>>
    /\ identities = <<>>
    /\ completed_messages = <<>>
    /\ completion_policy = PolicyNew(MaxPolicyMessages - 1, Hour, 0)
    /\ now = 0
    /\ mailbox = <<>>
    /\ wpc = "recv"
    /\ cur = NoCmd
    /\ drain_it = <<>>
    /\ acks = <<>>
    /\ ppc = [p \in Producers |-> "idle"]
    /\ signalled = {}
    /\ nsub = MaxCmds - 2
    /\ calls = <<>>
    /\ flush0 = NoFlush
    /\ started = MaxCmds - 2
    /\ finished = MaxCmds - 2
    /\ flushes = 0
    /\ resets = 0
    /\ onlyTotals = FALSE
    /\ totalIds = {}
    /\ nonTotal = { [message_id |-> 1, receipt_handle |-> i] : i \in 1 .. MaxCmds - 2 }

\* The thresholds a policy may be built with, each on its own.
MessageThresholds == 0 .. MaxPolicyMessages

TimeThresholds == (0 .. MaxNow) \cup {Hour}

\* A handler in the middle of a run, for every pair of thresholds: the last
\* flush was at some instant up to now, fewer Total outcomes than max_messages
\* are buffered since, none of them carried an identity, and the run has one
\* more command to accept.
InitPolicy ==
    /\ \E mm \in MessageThresholds, mt \in TimeThresholds, last \in 0 .. MaxNow :
         /\ completion_policy = PolicyNew(mm, mt, last)
         /\ now \in last .. MaxNow
         /\ \E n \in 0 .. (IF mm = 0 THEN 0 ELSE mm - 1) :
              /\ completed_events = [i \in 1 .. n |-> 100 + i]
              /\ completed_messages = [i \in 1 .. n |-> BufferedMessage(i)]
    /\ identities = <<>>
    /\ mailbox = <<>>
    /\ wpc = "recv"
    /\ cur = NoCmd
    /\ drain_it = <<>>
    /\ acks = <<>>
    /\ ppc = [p \in Producers |-> "idle"]
    /\ signalled = {}
    /\ nsub = MaxCmds - 1
    /\ calls = <<>>
    /\ flush0 = NoFlush
    /\ started = MaxCmds - 1
    /\ finished = MaxCmds - 1
    /\ flushes = 0
    /\ resets = 0
    /\ onlyTotals = TRUE
    /\ totalIds = { completed_messages[i].message_id : i \in DOMAIN completed_messages }
    /\ nonTotal = {}

SpecPolicy == InitPolicy /\ [][Next]_vars

\* The runs of a handler whose callers drop their handles when they like.
SpecHandles == InitApplied /\ [][NextHandles]_vars

\* The worker task is scheduled for as long as it has a step to take.
SpecFair == InitApplied /\ [][Next]_vars /\ WF_vars(Worker)

\* ------------------------------------------------- reading the history
\* The positions of `calls` that hold a call of op.
At(op) == { i \in DOMAIN calls : calls[i].op = op }

\* The calls of op, in call order.
RECURSIVE CallsOfFrom(_, _)
CallsOfFrom(op, i) ==
    IF i > Len(calls) THEN <<>>
    ELSE (IF calls[i].op = op THEN <<calls[i]>> ELSE <<>>) \o CallsOfFrom(op, i + 1)

CallsOf(op) == CallsOfFrom(op, 1)

\* The on_ack calls made for chunk j, in call order.
RECURSIVE AcksOfFrom(_, _)
AcksOfFrom(j, i) ==
    IF i > Len(calls) THEN <<>>
    ELSE (IF calls[i].op = "on_ack" /\ calls[i].chunk = j THEN <<calls[i]>> ELSE <<>>)
         \o AcksOfFrom(j, i + 1)

AcksOf(j) == AcksOfFrom(j, 1)

\* The entries of the delete requests issued so far, one after the other.
RECURSIVE Concat(_)
Concat(ss) == IF ss = <<>> THEN <<>> ELSE Head(ss).arg \o Concat(Tail(ss))

\* How many on_ack calls named message id `id`.
AckCount(id) == Cardinality({ i \in At("on_ack") : calls[i].arg = id })

\* How many messages of the flush's deletable-message buffer have message id `id`.
BufferedCount(id) ==
    Cardinality({ i \in DOMAIN flush0.messages : flush0.messages[i].message_id = id })

BufferedIds == { flush0.messages[i].message_id : i \in DOMAIN flush0.messages }

\* The worker is inside ack_all.
InFlush == wpc \in {"serialize", "emit", "store", "delete", "ack", "clear", "notify"}

\* The command taken last ran a flush and the loop over `acks` is over.
AcksDone == flushes > 0 /\ flush0.by # 0 /\
            (wpc \in {"clear", "notify"} \/ (wpc = "recv" /\ At("clear") # {}))

\* ---------------------------------------------------------------- claims
\* C1: a batch-delete request is issued only after the serialize call and the
\* emit call of the same flush have both returned Ok; a flush whose serialize
\* or emit failed issues no delete request.
C1_DeleteOnlyAfterEmit ==
    /\ \A d \in At("delete") :
         \E s0 \in At("serialize"), e \in At("emit") :
            /\ s0 < e /\ e < d
            /\ calls[s0].res = "Ok" /\ calls[e].res = "Ok"
    /\ (\E i \in At("serialize") \cup At("emit") : calls[i].res = "Err")
          => At("delete") = {}
    /\ wpc \in {"serialize", "emit"} => At("delete") = {}

\* C1 witness: a flush has issued a delete request.
C1_Witness == At("delete") # {} /\ wpc = "ack"

\* C2: no message accepted with a Partial or an Error outcome is an entry of a
\* delete request, every on_ack call names a message id accepted with a Total
\* outcome, and applying a Partial appends its result and its identities and
\* leaves the deletable-message buffer alone.
C2_OnlyTotalDeletable ==
    /\ [](\A d \in At("delete") : \A k \in DOMAIN calls[d].arg :
             [message_id |-> calls[d].arg[k].id,
              receipt_handle |-> calls[d].arg[k].receipt_handle] \notin nonTotal)
    /\ [](\A a \in At("on_ack") : calls[a].arg \in totalIds)
    /\ [](\A i \in DOMAIN completed_messages : completed_messages[i] \notin nonTotal)
    /\ [][(wpc = "route" /\ cur.kind = "Partial" /\ wpc' # "route") =>
             /\ completed_events' = Append(completed_events, cur.n)
             /\ identities' = identities \o cur.identities
             /\ completed_messages' = completed_messages]_vars

\* C2 witness: a flush serialized the result of a Partial and acked a Total,
\* and some message id came only with a Partial or an Error.
C2_Witness ==
    /\ At("on_ack") # {}
    /\ \E m \in nonTotal : m.message_id \notin totalIds
    /\ \E i \in DOMAIN flush0.events :
          flush0.events[i] \in { m.receipt_handle : m \in nonTotal }

\* C3 as claimed: when the acks of a flush are done, on_ack was called exactly
\* once for every message id of the deletable-message buffer.
C3_OncePerMessageId ==
    AcksDone => \A id \in BufferedIds : AckCount(id) = 1

\* C3 amended: when the acks of a flush are done, on_ack was called for every
\* message id as many times as the deletable-message buffer held a message
\* with that id at the start of the flush (once when the ids are distinct,
\* never for an id that was not buffered).
C3_OncePerBufferedMessage ==
    AcksDone => \A id \in MsgIds : AckCount(id) = BufferedCount(id)

\* C3 witness: a flush acked a buffer holding one message id twice, with both
\* Ok and Err calls.
C3_Witness ==
    /\ AcksDone
    /\ \E id \in MsgIds : BufferedCount(id) = 2
    /\ \E a, b \in At("on_ack") : calls[a].res = "Ok" /\ calls[b].res = "Err"

\* C4: the token of an ack_all is signalled as the last step of its flush: not
\* while the command waits or is applied, and only once serialize and emit
\* returned Ok, store was called for every buffered identity, a delete request
\* was issued for every chunk, on_ack was called for every buffered message,
\* and the buffers were cleared.
C4_TokenSignalledLast ==
    /\ [](cur.notify => cur.n \notin signalled)
    /\ [](\A i \in DOMAIN mailbox : mailbox[i].n \notin signalled)
    /\ [](\A k \in At("notify") :
            /\ k = Len(calls)
            /\ calls[k].arg = flush0.by /\ flush0.token
            /\ k > 1 /\ calls[k - 1].op = "clear"
            /\ \E s0 \in At("serialize"), e \in At("emit") :
                  s0 < e /\ calls[s0].res = "Ok" /\ calls[e].res = "Ok"
            /\ [i \in 1 .. Len(CallsOf("store")) |-> CallsOf("store")[i].arg]
                  = flush0.identities
            /\ Len(CallsOf("delete")) = NumChunksOf(Len(flush0.messages), ChunkSize)
            /\ Len(CallsOf("on_ack")) = Len(flush0.messages)
            /\ completed_events = <<>> /\ identities = <<>>
            /\ completed_messages = <<>>)
    /\ [][signalled' # signalled =>
            /\ wpc = "notify" /\ cur.notify
            /\ signalled' = signalled \cup {cur.n}
            /\ completed_events = <<>> /\ identities = <<>>
            /\ completed_messages = <<>> /\ drain_it = <<>> /\ acks = <<>>
            /\ At("clear") # {}]_vars

\* C4 witness: a token was signalled by a flush that stored an identity and
\* acked a message.
C4_Witness ==
    /\ flush0.by \in signalled
    /\ At("store") # {} /\ At("on_ack") # {}

\* C5 as claimed: a submission is accepted only while the worker is applying
\* no command.
C5_AcceptOnlyWhenWorkerIdle ==
    [][nsub' # nsub => wpc = "recv"]_vars

\* C5 amended: the mailbox holds at most one command the worker has not taken,
\* a submission is accepted only into an empty mailbox (whatever the worker is
\* doing), and a submitter is suspended only while the mailbox is full; so at
\* most one command is accepted while another one is applied.
C5_DepthOneMailbox ==
    /\ [](Len(mailbox) <= 1)
    /\ [](nsub - finished <= 2)
    /\ [](wpc # "aborted" => nsub - started = Len(mailbox))
    /\ [][nsub' # nsub => mailbox = <<>> /\ Len(mailbox') = 1]_vars
    /\ [][\A p \in Producers :
            (ppc[p] # "sending" /\ ppc'[p] = "sending") => Len(mailbox) = 1]_vars

\* C5 witness: the worker is inside a flush, the mailbox holds a command that
\* was accepted after the flush began, and a second submitter is suspended.
C5_Witness ==
    /\ InFlush
    /\ Len(mailbox) = 1
    /\ \E p \in Producers : ppc[p] = "sending"

\* C6: the worker applies one command at a time, in the order the mailbox
\* accepted them, and every on_ack call is made by the flush of the command
\* being applied, so the calls of two flushes never interleave.
C6_OneCommandAtATime ==
    /\ [](started - finished \in {0, 1})
    /\ [](started - finished = 1 <=> cur # NoCmd)
    /\ [](cur # NoCmd => cur.n = started)
    /\ [](\A i \in DOMAIN mailbox : mailbox[i].n = started + i)
    /\ [](InFlush => flush0.by = cur.n)
    /\ [][(At("on_ack")' # At("on_ack") /\ At("on_ack")' # {}) =>
             /\ wpc = "ack" /\ flush0.by = started
             /\ flush0' = flush0 /\ started' = started]_vars
    /\ [][flushes' # flushes => ~InFlush /\ flushes' = flushes + 1]_vars

\* C6 witness: the second flush of a run has made an on_ack call while a
\* further command waits in the mailbox.
C6_Witness ==
    /\ flushes = 2
    /\ At("on_ack") # {}
    /\ mailbox # <<>>

\* The run so far: a handler built with a count threshold of at least one and
\* a time threshold that never fires has taken Total outcomes only.
OnlyTotalsNoTimer ==
    /\ onlyTotals
    /\ completion_policy.max_messages >= 1
    /\ completion_policy.max_time_between_flushes = Hour
    /\ completion_policy.last_flush = 0 /\ resets = 0

\* C7: with max_messages = M >= 1 and a time threshold that never fires, while
\* fewer than M Total outcomes have been applied no flush has begun and the
\* result and message buffers hold every submitted item in order; applying the
\* M-th Total begins the first and only flush, which serializes exactly the M
\* results, and when it returns all three buffers are empty.
C7_FlushAtMaxMessages ==
    /\ (OnlyTotalsNoTimer /\ wpc # "route" /\ started < completion_policy.max_messages)
          => /\ flushes = 0 /\ calls = <<>> /\ wpc = "recv"
             /\ completed_events = [i \in 1 .. finished |-> i]
             /\ Len(completed_messages) = finished
             /\ \A i \in 1 .. finished : completed_messages[i].receipt_handle = i
             /\ \A i \in DOMAIN identities : identities[i] \div 10 \in 1 .. finished
    /\ (OnlyTotalsNoTimer /\ wpc # "route" /\ started = completion_policy.max_messages)
          => /\ flushes = 1
             /\ flush0.events = [i \in 1 .. started |-> i]
             /\ \A i \in At("serialize") :
                   Len(calls[i].arg) = completion_policy.max_messages
             /\ Len(CallsOf("serialize")) <= 1
             /\ wpc # "serialize" => Len(CallsOf("serialize")) = 1
    /\ (onlyTotals /\ completion_policy.max_messages >= 1
          /\ completion_policy.max_time_between_flushes = Hour
          /\ wpc = "recv" /\ finished = completion_policy.max_messages)
          => /\ flushes = 1 /\ resets = 1
             /\ completed_events = <<>> /\ identities = <<>>
             /\ completed_messages = <<>>
             /\ Len(CallsOf("delete")) <= 1

\* C7 witness: max_messages = 3, two Totals were buffered without a flush, and
\* the automatic flush of the third has returned.
C7_Witness ==
    /\ onlyTotals
    /\ completion_policy.max_messages = 3
    /\ completion_policy.max_time_between_flushes = Hour
    /\ wpc = "recv" /\ finished = 3 /\ flushes = 1
    /\ Len(flush0.events) = 3 /\ Len(flush0.messages) = 3
    /\ completed_events = <<>>

\* The message ids of the entries of a delete request, in request order.
IdsOfRequest(d) == [k \in 1 .. Len(calls[d].arg) |-> calls[d].arg[k].id]

\* C8: a delete request that failed outright stops nothing: the flush goes on
\* to the on_ack loop, where the request's chunk gets Err(id) for every id of
\* the request, in request order, and no Ok; every other chunk is reported
\* too, the buffers are cleared, and the token, if one was given, is signalled.
C8_RequestFailureAcksErr ==
    \A d \in At("delete") :
       ~calls[d].res.ok =>
          /\ wpc # "aborted"
          /\ AcksDone =>
               /\ AcksOf(calls[d].chunk)
                     = OnAckEvents(IdsOfRequest(d), "Err", calls[d].chunk)
               /\ \A e \in At("delete") :
                     Len(AcksOf(calls[e].chunk)) = Len(calls[e].arg)
          /\ wpc \in {"notify", "recv"} =>
               /\ completed_events = <<>> /\ identities = <<>>
               /\ completed_messages = <<>>
          /\ (wpc = "recv" /\ flush0.token) => flush0.by \in signalled

\* C8 witness: a flush of two or more chunks returned and signalled its token;
\* one request had failed outright and another one had succeeded.
C8_Witness ==
    /\ wpc = "recv" /\ flush0.by \in signalled
    /\ \E d, e \in At("delete") :
          /\ ~calls[d].res.ok /\ calls[e].res.ok
          /\ Len(calls[d].arg) >= 2
          /\ \E a \in At("on_ack") : calls[a].chunk = calls[e].chunk /\ calls[a].res = "Ok"

\* C9: for a delete request that succeeded, the on_ack calls made for its chunk
\* are Ok(id) for every id the backend reported successful, in reported order,
\* and then Err(id) for every id it reported failed, in reported order, and
\* nothing else; the on_ack calls of a flush follow chunk order and come after
\* every delete request.
C9_AcksFollowResponse ==
    /\ AcksDone =>
         \A d \in At("delete") :
            calls[d].res.ok =>
               AcksOf(calls[d].chunk)
                  = OnAckEvents(calls[d].res.successful, "Ok", calls[d].chunk)
                    \o OnAckEvents(calls[d].res.failed, "Err", calls[d].chunk)
    /\ \A a, b \in At("on_ack") : a < b => calls[a].chunk <= calls[b].chunk
    /\ \A a \in At("on_ack"), d \in At("delete") : d < a
    /\ \A a \in At("on_ack") : \E d \in At("delete") : calls[d].chunk = calls[a].chunk

\* C9 witness: the backend answered a two-entry request with {1: success,
\* 2: failure}, the calls were Ok(1) then Err(2), and an earlier chunk of the
\* same flush was acked before.
C9_Witness ==
    /\ AcksDone
    /\ \E d \in At("delete") :
          /\ calls[d].chunk = 2
          /\ calls[d].res = [ok |-> TRUE, successful |-> <<1>>, failed |-> <<2>>]
          /\ AcksOf(2) = <<Event("on_ack", 1, "Ok", 2), Event("on_ack", 2, "Err", 2)>>
          /\ Len(AcksOf(1)) = ChunkSize

\* C10: the delete requests of a flush are the consecutive chunks of the
\* deletable-message buffer: each has between 1 and 10 entries, every request
\* but the last has 10, their entries one after the other are the {id, receipt
\* handle} pairs of the buffer in buffer order, and once the chunk loop is over
\* there are ceil(n / 10) of them, so k + 1 with the last of size r for
\* n = 10k + r, 0 < r < 10.
C10_ChunksOfTen ==
    LET reqs == CallsOf("delete")
        n == Len(flush0.messages)
        all == Entries(flush0.messages)
    IN  /\ \A j \in DOMAIN reqs :
              /\ reqs[j].chunk = j
              /\ Len(reqs[j].arg) \in 1 .. ChunkSize
              /\ j < Len(reqs) => Len(reqs[j].arg) = ChunkSize
        /\ Len(Concat(reqs)) <= n
        /\ Concat(reqs) = SubSeq(all, 1, Len(Concat(reqs)))
        /\ (flush0.by # 0 /\ wpc \in {"ack", "clear", "notify", "recv"}
              /\ At("emit") # {}) =>
              /\ Concat(reqs) = all
              /\ Len(reqs) = (n + ChunkSize - 1) \div ChunkSize
              /\ n % ChunkSize # 0 =>
                    /\ Len(reqs) = (n \div ChunkSize) + 1
                    /\ Len(reqs[Len(reqs)].arg) = n % ChunkSize

\* C10 witness: a flush of 21 messages issued three requests, the last of one
\* entry.
C10_Witness ==
    /\ Len(flush0.messages) = 2 * ChunkSize + 1
    /\ wpc = "ack"
    /\ Len(CallsOf("delete")) = 3
    /\ Len(calls[Len(calls)].arg) = 1


\* C11: on a fatal flush error (serialize or emit returned Err) the three
\* buffers are empty at the point of abort, and that flush made no cache
\* store, no delete request, no on_ack call and signalled no token.
C11_AbortedWithBuffersCleared ==
    wpc = "aborted" =>
        /\ completed_events = <<>>
        /\ identities = <<>>
        /\ completed_messages = <<>>
        /\ At("store") = {} /\ At("delete") = {} /\ At("on_ack") = {}
        /\ At("notify") = {}
        /\ flush0.by \notin signalled


\* The arguments of a sequence of calls.
ArgsOf(evs) == [i \in DOMAIN evs |-> evs[i].arg]

\* A store of the flush of the command taken last returned Err.
StoreFailed == \E i \in At("store") : calls[i].res = "Err"

\* C12: a failed cache store is not fatal. The flush goes on: the identities
\* are stored one by one whatever the stores return, then every delete request
\* and every on_ack call is issued, the buffers are cleared and the token, if
\* any, is signalled.
C12_StoreFailureNotFatal ==
    StoreFailed =>
        /\ wpc # "aborted"
        /\ wpc = "store" => flush0.identities = ArgsOf(CallsOf("store")) \o drain_it
        /\ wpc \in {"delete", "ack", "clear", "notify", "recv"} =>
              ArgsOf(CallsOf("store")) = flush0.identities
        /\ wpc \in {"ack", "clear", "notify", "recv"} =>
              Len(CallsOf("delete")) = Len(Chunks(flush0.messages))
        /\ wpc \in {"clear", "notify", "recv"} =>
              Len(CallsOf("on_ack")) = Len(flush0.messages)
        /\ wpc \in {"notify", "recv"} =>
              /\ At("clear") # {}
              /\ completed_events = <<>>
              /\ identities = <<>>
              /\ completed_messages = <<>>
        /\ wpc = "recv" /\ flush0.token => flush0.by \in signalled

\* C12 witness: the first of two stores failed, the second was made, a message
\* was acknowledged and the token was signalled.
C12_Witness ==
    /\ wpc = "recv"
    /\ Len(CallsOf("store")) = 2
    /\ CallsOf("store")[1].res = "Err"
    /\ At("on_ack") # {}
    /\ flush0.by \in signalled


\* C13: the timer of the policy is reset exactly once, right after every flush
\* that completes, whether the policy triggered it or an ack_all command asked
\* for it, and last_flush changes at no other time.
C13_ResetAfterEveryFlush ==
    /\ [][(wpc = "notify" /\ wpc' = "recv") =>
             /\ resets' = resets + 1
             /\ completion_policy'.last_flush = now']_vars
    /\ [][completion_policy' # completion_policy =>
             (wpc = "notify" /\ wpc' = "recv")]_vars


\* The elements of a sequence.
Range(s) == { s[i] : i \in DOMAIN s }

\* C14 as stated: in every reachable state there are no more deletable
\* messages than completed results, and no fewer identities than deletable
\* messages (an outcome may carry no identity).
C14_BufferLengths ==
    /\ Len(completed_messages) <= Len(completed_events)
    /\ Len(identities) >= Len(completed_messages)

\* C14, amended: in every reachable state there are no more deletable messages
\* than completed results, every deletable message having its result in the
\* buffer; and while the worker has not aborted, every buffered identity was
\* carried by a result that is still buffered.
C14_MessagesAmongResults ==
    /\ Len(completed_messages) <= Len(completed_events)
    /\ \A i \in DOMAIN completed_messages :
          completed_messages[i].receipt_handle \in Range(completed_events)
    /\ wpc # "aborted" =>
          \A i \in DOMAIN identities :
             identities[i] \div 10 \in Range(completed_events)

\* C14 witness: between two commands two messages and one identity are
\* buffered.
C14_Witness ==
    /\ wpc = "recv"
    /\ Len(completed_messages) = 2
    /\ Len(identities) = 1
    /\ Len(completed_events) = 2


\* C15 as stated: when mark_complete with an Error outcome returns, each of
\* the three buffers is as long as it was before the call.
C15_ErrorKeepsLengths ==
    [][(cur.kind = "Error" /\ wpc \in {"route", "notify"} /\ wpc' = "recv") =>
          LET before == IF wpc = "route"
                        THEN [events |-> completed_events,
                              identities |-> identities,
                              messages |-> completed_messages]
                        ELSE flush0
          IN  /\ Len(completed_events') = Len(before.events)
              /\ Len(identities') = Len(before.identities)
              /\ Len(completed_messages') = Len(before.messages)]_vars

\* C15, amended: the Error arm of mark_complete changes no buffer, so a call
\* that returns without a flush leaves the three buffers as they were; the
\* policy is still asked, and when it fires the flush is handed the buffers as
\* they were before the call and has emptied all three when the call returns.
C15_ErrorArmKeepsBuffers ==
    /\ [][(wpc = "route" /\ cur.kind = "Error") =>
             /\ completed_events' = completed_events
             /\ identities' = identities
             /\ completed_messages' = completed_messages
             /\ wpc' = "serialize" =>
                   /\ flush0'.events = completed_events
                   /\ flush0'.identities = identities
                   /\ flush0'.messages = completed_messages]_vars
    /\ [][(cur.kind = "Error" /\ wpc = "notify" /\ wpc' = "recv") =>
             /\ completed_events' = <<>>
             /\ identities' = <<>>
             /\ completed_messages' = <<>>]_vars

\* C15 witness: an Error outcome has been applied to buffers that hold a
\* result, and the policy has fired on it.
C15_Witness ==
    /\ cur.kind = "Error"
    /\ wpc = "serialize"
    /\ flush0.events # <<>>
    /\ completed_events = flush0.events


\* C16: every command the mailbox accepted is taken out of it and applied to
\* the end, and every token handed to ack_all is signalled, unless the worker
\* aborts on a fatal error; the worker is scheduled fairly and every call of a
\* collaborator returns.
C16_CommandsComplete ==
    /\ \A n \in 1 .. MaxCmds :
          (nsub >= n) ~> (finished >= n \/ wpc = "aborted")
    /\ \A n \in 1 .. MaxCmds :
          (\E i \in DOMAIN mailbox : mailbox[i].n = n /\ mailbox[i].notify)
             ~> (n \in signalled \/ wpc = "aborted")

\* C16 witness: every command of the run was applied to the end, the last one
\* an ack_all whose token was signalled after a delete request.
C16_Witness ==
    /\ finished = MaxCmds
    /\ wpc = "recv"
    /\ MaxCmds \in signalled
    /\ At("delete") # {}


\* C17: should_flush(c) is true exactly when c >= max_messages or the time
\* since last_flush is at least max_time_between_flushes, for every count and
\* every pair of thresholds, so a threshold of 0 makes every mark_complete
\* flush; asking the policy changes nothing of it.
C17_ShouldFlush ==
    /\ [][(wpc = "route" /\ cur.type = "mark_complete" /\ wpc' # wpc) =>
             LET c == Len(completed_events')
                 p == completion_policy
             IN  /\ (wpc' = "serialize") <=>
                       (c >= p.max_messages \/
                          now' - p.last_flush >= p.max_time_between_flushes)
                 /\ (p.max_messages = 0 \/ p.max_time_between_flushes = 0) =>
                       wpc' = "serialize"
                 /\ wpc' \in {"serialize", "recv"}
                 /\ completion_policy' = p]_vars
    /\ [](\A c \in 0 .. MaxPolicyMessages + 1, t \in Instants :
             should_flush(completion_policy, c, t) <=>
                (c >= completion_policy.max_messages \/
                   t - completion_policy.last_flush >=
                      completion_policy.max_time_between_flushes))

\* C17 witness: a mark_complete has flushed on the time threshold alone, with
\* fewer results buffered than max_messages.
C17_Witness ==
    /\ wpc = "serialize"
    /\ cur.type = "mark_complete"
    /\ Len(completed_events) < completion_policy.max_messages
    /\ completion_policy.max_time_between_flushes > 0
    /\ now - completion_policy.last_flush >= completion_policy.max_time_between_flushes


\* C18: ack_all runs the flush whatever the buffers hold. A flush that finds
\* the deletable-message buffer empty issues no delete request and no on_ack
\* call; it still serializes and emits, stores every buffered identity, leaves
\* the three buffers empty and signals the token, if any.
C18_FlushOfEmptyDeletable ==
    /\ [][(wpc = "route" /\ cur.type = "ack_all" /\ wpc' # wpc) =>
             /\ wpc' = "serialize"
             /\ flush0'.by = cur.n]_vars
    /\ []((flush0.by # 0 /\ flush0.messages = <<>>) =>
             /\ At("delete") = {} /\ At("on_ack") = {}
             /\ wpc \notin {"delete", "ack"}
             /\ wpc \in {"emit", "store", "clear", "notify", "recv"} =>
                   At("serialize") # {}
             /\ wpc \in {"clear", "notify", "recv"} =>
                   /\ At("emit") # {}
                   /\ ArgsOf(CallsOf("store")) = flush0.identities
             /\ wpc \in {"notify", "recv"} =>
                   /\ completed_events = <<>>
                   /\ identities = <<>>
                   /\ completed_messages = <<>>
             /\ (wpc = "recv" /\ flush0.token) => flush0.by \in signalled)

\* C18 witness: an ack_all with a token has flushed a result and its identity
\* with no message to delete.
C18_Witness ==
    /\ wpc = "recv"
    /\ flush0.by \in signalled
    /\ flush0.messages = <<>>
    /\ flush0.events # <<>>
    /\ At("store") # {}


\* C19: short of a fatal error no result is lost or serialized twice. The
\* result of every Total and Partial outcome is appended to the buffer when the
\* outcome is applied; a flush hands the serializer the whole buffer once, in
\* the order of application, and the buffer does not change until that flush
\* clears it; nothing else takes a result out of the buffer.
C19_EachResultSerializedOnce ==
    /\ [][(wpc = "route" /\ cur.kind \in {"Total", "Partial"} /\ wpc' # wpc) =>
             /\ completed_events' = Append(completed_events, cur.n)
             /\ wpc' = "serialize" => flush0'.events = completed_events']_vars
    /\ [][completed_events' # completed_events =>
             \/ /\ wpc = "route"
                /\ completed_events' = Append(completed_events, cur.n)
             \/ /\ wpc = "clear"
                /\ completed_events' = <<>>
                /\ CallsOf("serialize") =
                      <<Event("serialize", completed_events, "Ok", 0)>>
             \/ wpc' = "aborted"]_vars
    /\ [](/\ \A i, j \in DOMAIN completed_events :
                i < j => completed_events[i] < completed_events[j]
          /\ wpc = "serialize" =>
                At("serialize") = {} /\ completed_events = flush0.events
          /\ wpc \in {"emit", "store", "delete", "ack", "clear"} =>
                /\ completed_events = flush0.events
                /\ CallsOf("serialize") =
                      <<Event("serialize", flush0.events, "Ok", 0)>>
          /\ wpc = "notify" => completed_events = <<>>)

\* C19 witness: the second flush of a run has serialized the result buffered
\* after the first flush, and nothing else.
C19_Witness ==
    /\ flushes = 2
    /\ wpc = "emit"
    /\ flush0.events = <<2>>
    /\ CallsOf("serialize")[1].arg = <<2>>


\* Every facade handle has been dropped.
AllDropped == \A p \in Producers : ppc[p] = "dropped"

\* C20: the channel is never closed while the worker lives, the handler inside
\* the worker holding a sender of its own. Once every facade handle is dropped
\* and the mailbox is drained the worker has no step to take and still does not
\* leave its loop: the worker task ends only by the panic of a failed serialize
\* or emit, and a send from a live handle fails only after that panic.
C20_WorkerOutlivesHandles ==
    /\ [](wpc # "stopped")
    /\ [](~WorkerGone => Senders >= 1)
    /\ []((AllDropped /\ mailbox = <<>> /\ wpc = "recv") => ~ENABLED Worker)
    /\ [][(WorkerGone' /\ ~WorkerGone) =>
             (wpc' = "aborted" /\ wpc \in {"serialize", "emit"})]_vars
    /\ [][\A p \in Producers :
             (ppc'[p] = "panicked" /\ ppc[p] # "panicked") => wpc = "aborted"]_vars

\* C20 witness: every command of the run has been applied, every facade handle
\* is dropped, and the worker waits on the empty mailbox.
C20_Witness ==
    /\ AllDropped
    /\ mailbox = <<>>
    /\ wpc = "recv"
    /\ nsub = MaxCmds
    /\ finished = nsub

====
